---- MODULE Spec2Model ----
(***************************************************************************)
(* A model of the MIDI byte encoder (mingus.midi.midi_track.MidiTrack),    *)
(* of the score sequencer (mingus.midi.sequencer2.Sequencer), of the       *)
(* recording of control events (mingus.containers.track) and of the note   *)
(* objects (mingus.containers.note).                                       *)
(*                                                                         *)
(* Bytes are integers 0..255 and byte strings are sequences of bytes.      *)
(* A method that can raise is an operator from an encoder record to an     *)
(* encoder record whose field err tells that the call raised; the fields   *)
(* written before the raise keep their new values, as in Python.           *)
(***************************************************************************)
EXTENDS Integers, Sequences, FiniteSets, TLC

VARIABLES
    \* MidiTrack instances: each variable maps an instance to its attribute
    track_data, delta_time, delay, bpm, change_instrument, instrument,
    \* the number of calls made on each instance
    ncalls,
    \* the last MidiTrack call: its name, instance, whether it raised, the
    \* buffer before it and its argument
    last_call,
    \* int_to_varbyte applied to a drawn tick count
    vlq_value, vlq_bytes,
    \* Sequencer: score (insertion-ordered dict), instruments
    score, instruments,
    \* the snapshot file written by save_tracks
    file,
    \* play_score: position, sorted copy of the score, index, time cursor,
    \* whether stop_func made the loop break, and the sink's call log
    pc, sorted_score, idx, the_time, cancelled, calls,
    \* the number of Sequencer calls made, and the last one: its name,
    \* whether it raised, and the score and instruments before it
    nseq, last_seq,
    \* set_tempo_event applied to a drawn bpm: the bpm and the outcome
    tempo_bpm, tempo_event,
    \* a Note object, and the last call made on it: its name, whether it
    \* raised and the object before it
    note_obj, last_note

vars == <<track_data, delta_time, delay, bpm, change_instrument, instrument,
          ncalls, last_call, vlq_value, vlq_bytes, score, instruments, file,
          pc, sorted_score, idx, the_time, cancelled, calls, nseq, last_seq,
          tempo_bpm, tempo_event, note_obj, last_note>>

encVars == <<track_data, delta_time, delay, bpm, change_instrument,
             instrument, ncalls, last_call>>
vlqVars == <<vlq_value, vlq_bytes>>
tempoVars == <<tempo_bpm, tempo_event>>
noteVars == <<note_obj, last_note>>
seqVars == <<score, instruments, file, pc, sorted_score, idx, the_time,
             cancelled, calls, nseq, last_seq>>

----------------------------------------------------------------------------
(* Bounds *)

\* the number of calls made on one MidiTrack instance
MaxCalls == 2
\* the number of slots of a bar
MaxSlots == 2
\* tick counts are drawn around 128^k for k up to this
MaxVlqGroups == 3
\* and within this distance of 128^k
MaxVlqOff == 20
\* the number of calls made on the Sequencer
MaxSeqCalls == 2
\* set_tempo_event is applied to every bpm from 1 to this
MaxBpm == 130
\* the number of calls made on two MidiTrack instances together
MaxTotalCalls == 2

----------------------------------------------------------------------------
(* Generic helpers *)

Max(a, b) == IF a >= b THEN a ELSE b

RECURSIVE Pow(_, _)
Pow(b, n) == IF n = 0 THEN 1 ELSE b * Pow(b, n - 1)

Reverse(s) == [i \in 1..Len(s) |-> s[Len(s) + 1 - i]]

\* Python round() of the rational n/d, d > 0: to nearest, ties to even
RoundHalfEven(n, d) ==
    LET q == n \div d
        r == n % d
    IN  IF 2 * r < d THEN q
        ELSE IF 2 * r > d THEN q + 1
        ELSE IF q % 2 = 0 THEN q ELSE q + 1

----------------------------------------------------------------------------
(* mingus.midi.midi_events *)

NOTE_OFF == 8
NOTE_ON == 9
CONTROLLER == 11
PROGRAM_CHANGE == 12
BANK_SELECT == 0
META_EVENT == <<255>>
SET_TEMPO == <<81>>
TIME_SIGNATURE == <<88>>
KEY_SIGNATURE == <<89>>
TRACK_NAME == <<3>>
TRACK_HEADER == <<77, 84, 114, 107>>

(* mingus.core.keys *)
major_keys == <<"Cb", "Gb", "Db", "Ab", "Eb", "Bb", "F", "C", "G", "D", "A",
                "E", "B", "F#", "C#">>
minor_keys == <<"ab", "eb", "bb", "f", "c", "g", "d", "a", "e", "b", "f#",
                "c#", "g#", "d#", "a#">>

----------------------------------------------------------------------------
(* Formatting: "%0<width>x" % n and binascii.a2b_hex *)

RECURSIVE HexDigits(_)
HexDigits(n) == IF n < 16 THEN <<n>> ELSE Append(HexDigits(n \div 16), n % 16)

\* "%0<width>x" % n: the hex digits of n, zero-padded on the left to width
\* (never truncated)
FormatHex(n, width) ==
    LET ds == HexDigits(n)
    IN  IF Len(ds) >= width THEN ds
        ELSE [i \in 1..(width - Len(ds)) |-> 0] \o ds

\* a2b_hex raises on a string of odd length
a2b_hex_ok(ds) == Len(ds) % 2 = 0
a2b_hex(ds) == [i \in 1..(Len(ds) \div 2) |-> 16 * ds[2 * i - 1] + ds[2 * i]]

----------------------------------------------------------------------------
(* MidiTrack.int_to_varbyte *)

\* int(log(v, 0x80)) for v >= 1
RECURSIVE IntLog128(_)
IntLog128(v) == IF v < 128 THEN 0 ELSE 1 + IntLog128(v \div 128)

\* the groups without the continuation bit
int_to_varbyte_noflag(value) ==
    LET length == IntLog128(Max(value, 1)) + 1
        bytes == [i \in 1..length |-> (value \div Pow(128, i - 1)) % 128]
    IN  Reverse(bytes)

int_to_varbyte(value) ==
    LET length == IntLog128(Max(value, 1)) + 1
        bytes == [i \in 1..length |-> (value \div Pow(128, i - 1)) % 128]
        rev == Reverse(bytes)
    IN  [i \in 1..length |-> IF i < length THEN rev[i] + 128 ELSE rev[i]]

----------------------------------------------------------------------------
(* MidiTrack: the methods, on an encoder record e *)

Raise(e) == [e EXCEPT !.err = TRUE]
Emit(e, bytes) == [e EXCEPT !.track_data = @ \o bytes]

\* end_of_track
end_of_track == <<0, 255, 47, 0>>

\* set_deltatime: an int is converted, bytes are stored as they are
set_deltatime(e, ticks) == [e EXCEPT !.delta_time = int_to_varbyte(ticks)]
set_deltatime_bytes(e, bytes) == [e EXCEPT !.delta_time = bytes]

\* midi_event: param2 is <<>> for None and <<v>> otherwise; the result is
\* [ok |-> the assertions passed, bytes |-> the event]
midi_event(e, event_type, channel, param1, param2) ==
    LET ok == /\ 0 <= event_type /\ event_type < 16
              /\ 0 <= channel /\ channel < 16
              /\ 0 <= param1 /\ param1 <= 127
              /\ (param2 = <<>> \/ (0 <= param2[1] /\ param2[1] <= 127))
        status_byte == channel + 16 * event_type
    IN  [ok |-> ok,
         bytes |-> IF ok THEN e.delta_time \o <<status_byte, param1>> \o param2
                   ELSE <<>>]

note_off(e, channel, note, velocity) ==
    midi_event(e, NOTE_OFF, channel, note, <<velocity>>)

note_on(e, channel, note, velocity) ==
    midi_event(e, NOTE_ON, channel, note, <<velocity>>)

controller_event(e, channel, contr_nr, contr_val) ==
    midi_event(e, CONTROLLER, channel, contr_nr, <<contr_val>>)

\* select_bank passes (BANK_SELECT, channel, bank) to
\* controller_event(channel, contr_nr, contr_val)
select_bank(e, channel, bank) == controller_event(e, BANK_SELECT, channel, bank)

program_change_event(e, channel, instr) ==
    midi_event(e, PROGRAM_CHANGE, channel, instr, <<>>)

\* set_instrument: each of the two events is appended as soon as it is built
set_instrument(e, channel, instr, bank) ==
    LET sb == select_bank(e, channel, bank)
    IN  IF ~sb.ok THEN Raise(e)
        ELSE LET e1 == Emit(e, sb.bytes)
                 pc_ev == program_change_event(e1, channel, instr)
             IN  IF ~pc_ev.ok THEN Raise(e1) ELSE Emit(e1, pc_ev.bytes)

\* int(note): Note.__int__ is octave * 12 + the semitone of the name,
\* PercussionNote.__int__ is the key number
NoteInt(note) ==
    IF note.percussion THEN note.key_number
    ELSE note.octave * 12 + note.semitone

\* a note that leaves the instrument change pending
play_Note_keepflag(e, note) ==
    LET e1 == IF e.change_instrument
              THEN set_instrument(e, note.channel, e.instrument, 1)
              ELSE e
    IN  IF e1.err THEN e1
        ELSE IF ~(0 <= note.velocity /\ note.velocity <= 127) THEN Raise(e1)
        ELSE LET ev == note_on(e1, note.channel, NoteInt(note) + 12, note.velocity)
             IN  IF ev.ok THEN Emit(e1, ev.bytes) ELSE Raise(e1)

\* play_Note
play_Note(e, note) ==
    LET channel == note.channel
        velocity == note.velocity
        e1 == IF e.change_instrument
              THEN LET s == set_instrument(e, channel, e.instrument, 1)
                   IN  IF s.err THEN s
                       ELSE [s EXCEPT !.change_instrument = FALSE]
              ELSE e
    IN  IF e1.err THEN e1
        ELSE IF ~(0 <= velocity /\ velocity <= 127) THEN Raise(e1)
        ELSE LET ev == note_on(e1, channel, NoteInt(note) + 12, velocity)
             IN  IF ev.ok THEN Emit(e1, ev.bytes) ELSE Raise(e1)

\* stop_Note
stop_Note(e, note) ==
    LET ev == note_off(e, note.channel, NoteInt(note) + 12, note.velocity)
    IN  IF ev.ok THEN Emit(e, ev.bytes) ELSE Raise(e)

\* [self.play_Note(x) for x in notes]
RECURSIVE PlayNotes(_, _)
PlayNotes(e, notes) ==
    IF e.err \/ notes = <<>> THEN e
    ELSE PlayNotes(play_Note(e, Head(notes)), Tail(notes))

\* [self.stop_Note(x) for x in notes]
RECURSIVE StopNotes(_, _)
StopNotes(e, notes) ==
    IF e.err \/ notes = <<>> THEN e
    ELSE StopNotes(stop_Note(e, Head(notes)), Tail(notes))

\* play_NoteContainer
play_NoteContainer(e, notecontainer) ==
    IF Len(notecontainer) <= 1 THEN PlayNotes(e, notecontainer)
    ELSE LET e1 == play_Note(e, notecontainer[1])
         IN  IF e1.err THEN e1
             ELSE PlayNotes(set_deltatime(e1, 0), Tail(notecontainer))

\* stop_NoteContainer
stop_NoteContainer(e, notecontainer) ==
    IF Len(notecontainer) <= 1 THEN StopNotes(e, notecontainer)
    ELSE LET e1 == stop_Note(e, notecontainer[1])
         IN  IF e1.err THEN e1
             ELSE StopNotes(set_deltatime(e1, 0), Tail(notecontainer))

\* the tempo written with "%08x"
set_tempo_event_wide(e, tempo) ==
    LET ds == FormatHex(60000000 \div tempo, 8)
    IN  [ok |-> tempo > 0 /\ a2b_hex_ok(ds),
         bytes |-> IF tempo > 0 /\ a2b_hex_ok(ds)
                   THEN e.delta_time \o META_EVENT \o SET_TEMPO \o <<3>>
                        \o a2b_hex(ds)
                   ELSE <<>>]

\* set_tempo_event: [ok, bytes]
set_tempo_event(e, tempo) ==
    LET ms_per_min == 60000000
        ds == FormatHex(ms_per_min \div tempo, 6)
    IN  [ok |-> tempo > 0 /\ a2b_hex_ok(ds),
         bytes |-> IF tempo > 0 /\ a2b_hex_ok(ds)
                   THEN e.delta_time \o META_EVENT \o SET_TEMPO \o <<3>>
                        \o a2b_hex(ds)
                   ELSE <<>>]

\* set_tempo: bpm is assigned before the event is built
set_tempo(e, tempo) ==
    LET e1 == [e EXCEPT !.bpm = tempo]
        ev == set_tempo_event(e1, tempo)
    IN  IF ev.ok THEN Emit(e1, ev.bytes) ELSE Raise(e1)

\* int(log(m, 2)) for m >= 1
RECURSIVE IntLog2(_)
IntLog2(m) == IF m < 2 THEN 0 ELSE 1 + IntLog2(m \div 2)

\* time_signature_event
time_signature_event(e, meter) ==
    LET numer == a2b_hex(FormatHex(meter[1], 2))
        denom == a2b_hex(FormatHex(IntLog2(meter[2]), 2))
    IN  e.delta_time \o META_EVENT \o TIME_SIGNATURE \o <<4>> \o numer
        \o denom \o <<24, 8>>

\* set_meter
set_meter(e, meter) == Emit(e, time_signature_event(e, meter))

\* list.index: 0-based position, or -1 standing for ValueError
IndexOf(list, x) ==
    IF \E i \in 1..Len(list) : list[i] = x
    THEN (CHOOSE i \in 1..Len(list) : list[i] = x) - 1
    ELSE -1

\* str.islower on the key names that are used
IsLower(key) == key \in {minor_keys[i] : i \in 1..Len(minor_keys)} \cup {"h"}

\* key_signature_event: [ok, bytes]
key_signature_event(e, key) ==
    LET minor == IsLower(key)
        pos == IF minor THEN IndexOf(minor_keys, key)
               ELSE IndexOf(major_keys, key)
        val0 == pos - 7
        val == IF val0 < 0 THEN 256 + val0 ELSE val0
        mode == IF minor THEN <<1>> ELSE <<0>>
    IN  [ok |-> pos >= 0,
         bytes |-> IF pos >= 0
                   THEN e.delta_time \o META_EVENT \o KEY_SIGNATURE \o <<2>>
                        \o a2b_hex(FormatHex(val, 2)) \o mode
                   ELSE <<>>]

\* set_key
set_key(e, key) ==
    LET ev == key_signature_event(e, key)
    IN  IF ev.ok THEN Emit(e, ev.bytes) ELSE Raise(e)

\* track_name_event: the name is a sequence of ASCII codes
track_name_event(e, name) ==
    <<0>> \o META_EVENT \o TRACK_NAME \o int_to_varbyte(Len(name)) \o name

\* set_track_name
set_track_name(e, name) == Emit(e, track_name_event(e, name))

\* reset
reset(e) == [e EXCEPT !.track_data = <<>>, !.delta_time = <<0>>]

\* header with the length of track_data alone
header_short(e) ==
    LET chunk_size == a2b_hex(FormatHex(Len(e.track_data), 8))
    IN  TRACK_HEADER \o chunk_size

\* header
header(e) ==
    LET chunk_size == a2b_hex(FormatHex(Len(e.track_data) + Len(end_of_track), 8))
    IN  TRACK_HEADER \o chunk_size

\* get_midi_data
get_midi_data(e) == header(e) \o e.track_data \o end_of_track

----------------------------------------------------------------------------
(* MidiTrack.play_Bar and MidiTrack.play_Track *)

\* int(round((1.0 / duration) * 288))
Tick(duration) == RoundHalfEven(288, duration)

\* one iteration of the loop of play_Bar; x.notes is <<>> for a rest
PlaySlot(e, x) ==
    LET tick == Tick(x.duration)
    IN  IF x.notes = <<>> THEN [e EXCEPT !.delay = @ + tick]
        ELSE LET e1 == [set_deltatime(e, e.delay) EXCEPT !.delay = 0]
                 e2 == IF x.has_bpm THEN set_tempo(set_deltatime(e1, 0), x.bpm)
                       ELSE e1
                 e3 == IF e2.err THEN e2 ELSE play_NoteContainer(e2, x.notes)
             IN  IF e3.err THEN e3
                 ELSE stop_NoteContainer(
                          set_deltatime_bytes(e3, int_to_varbyte(tick)), x.notes)

RECURSIVE PlaySlots(_, _)
PlaySlots(e, slots) ==
    IF e.err \/ slots = <<>> THEN e
    ELSE PlaySlots(PlaySlot(e, Head(slots)), Tail(slots))

\* a bar that does not write the pending delay before the meter
play_Bar_stale(e, bar) ==
    LET e1 == [e EXCEPT !.delay = 0]
        e2 == set_meter(e1, bar.meter)
        e3 == set_key(set_deltatime(e2, 0), bar.key)
    IN  PlaySlots(e3, bar.slots)

\* play_Bar
play_Bar(e, bar) ==
    LET e1 == [set_deltatime(e, e.delay) EXCEPT !.delay = 0]
        e2 == set_meter(e1, bar.meter)
        e3 == set_key(set_deltatime(e2, 0), bar.key)
    IN  PlaySlots(e3, bar.slots)

RECURSIVE PlayBars(_, _)
PlayBars(e, bars) ==
    IF e.err \/ bars = <<>> THEN e
    ELSE PlayBars(play_Bar(e, Head(bars)), Tail(bars))

\* play_Track: a Track always has the attribute name, which may be None, and
\* len(None) raises
play_Track(e, track) ==
    LET e1 == IF track.name.none THEN Raise(e)
              ELSE set_track_name(e, track.name.text)
        e2 == [e1 EXCEPT !.delay = 0]
        e3 == IF track.instrument.has_nr
              THEN [e2 EXCEPT !.change_instrument = TRUE,
                              !.instrument = track.instrument.number]
              ELSE e2
    IN  IF e1.err THEN e1 ELSE PlayBars(e3, track.bars)

----------------------------------------------------------------------------
(* The arguments of the MidiTrack calls *)

MkNote(octave, semitone, channel, velocity) ==
    [percussion |-> FALSE, key_number |-> 0, octave |-> octave,
     semitone |-> semitone, channel |-> channel, velocity |-> velocity]

NoteC == MkNote(4, 0, 1, 64)
NoteE == MkNote(4, 4, 1, 64)
NoteG == MkNote(4, 7, 2, 100)
\* a velocity, a channel and a pitch out of range
NoteLoud == MkNote(4, 2, 1, 200)
NoteCh16 == MkNote(4, 2, 16, 64)
NoteHigh == MkNote(10, 0, 1, 64)

Notes == {NoteC, NoteLoud, NoteCh16, NoteHigh}
Containers == {<<>>, <<NoteC, NoteE>>, <<NoteC, NoteLoud>>}

MkSlot(duration, notes, has_bpm, tempo) ==
    [duration |-> duration, notes |-> notes, has_bpm |-> has_bpm,
     bpm |-> tempo]

Slots ==
    { MkSlot(8, <<>>, FALSE, 0),
      MkSlot(4, <<NoteC>>, FALSE, 0),
      MkSlot(2, <<NoteC, NoteE, NoteG>>, FALSE, 0),
      MkSlot(4, <<NoteC, NoteE>>, TRUE, 90),
      MkSlot(4, <<NoteC, NoteLoud>>, FALSE, 0) }

SlotSeqs == UNION {[1..n -> Slots] : n \in 1..MaxSlots}

MkBar(meter, key, slots) == [meter |-> meter, key |-> key, slots |-> slots]

Bars == {MkBar(<<4, 4>>, "C", ss) : ss \in SlotSeqs}

NoBar == MkBar(<<4, 4>>, "C", <<>>)

MkTrack(name, instr, bars) == [name |-> name, instrument |-> instr, bars |-> bars]

TrackNames == {[none |-> TRUE, text |-> <<>>], [none |-> FALSE, text |-> <<84>>]}
TrackInstruments == {[has_nr |-> FALSE, number |-> 0],
                     [has_nr |-> TRUE, number |-> 5],
                     [has_nr |-> TRUE, number |-> 128]}
RestBar == MkBar(<<6, 8>>, "a", <<MkSlot(8, <<>>, FALSE, 0)>>)
ChordBar == MkBar(<<4, 4>>, "C",
                  <<MkSlot(8, <<>>, FALSE, 0), MkSlot(4, <<NoteC, NoteE>>, FALSE, 0)>>)
TrackBars == {<<>>, <<RestBar>>, <<ChordBar>>, <<RestBar, ChordBar>>}
Tracks == {MkTrack(n, i, bs) : n \in TrackNames, i \in TrackInstruments,
                               bs \in TrackBars}

----------------------------------------------------------------------------
(* MidiTrack: state and calls *)

\* the class attributes
ClassAttrs ==
    [track_data |-> <<>>, delta_time |-> <<0>>, delay |-> 0, bpm |-> 120,
     change_instrument |-> FALSE, instrument |-> 1, err |-> FALSE]

\* __init__(start_bpm)
MidiTrackInit(start_bpm) == set_tempo([ClassAttrs EXCEPT !.track_data = <<>>], start_bpm)

\* the instance m as a record
Enc(m) ==
    [track_data |-> track_data[m], delta_time |-> delta_time[m],
     delay |-> delay[m], bpm |-> bpm[m],
     change_instrument |-> change_instrument[m],
     instrument |-> instrument[m], err |-> FALSE]

NoTrack == MkTrack([none |-> TRUE, text |-> <<>>], [has_nr |-> FALSE, number |-> 0], <<>>)

\* the same with the buffer kept in one attribute of the class
StoreCall_shared(m, op, e, bar, track, args) ==
    /\ ncalls[m] < MaxCalls
    /\ track_data' = [k \in DOMAIN track_data |-> e.track_data]
    /\ delta_time' = [delta_time EXCEPT ![m] = e.delta_time]
    /\ delay' = [delay EXCEPT ![m] = e.delay]
    /\ bpm' = [bpm EXCEPT ![m] = e.bpm]
    /\ change_instrument' = [change_instrument EXCEPT ![m] = e.change_instrument]
    /\ instrument' = [instrument EXCEPT ![m] = e.instrument]
    /\ ncalls' = [ncalls EXCEPT ![m] = @ + 1]
    /\ last_call' = [op |-> op, m |-> m, raised |-> e.err, before |-> Enc(m),
                     bar |-> bar, track |-> track, args |-> args]
    /\ UNCHANGED <<vlqVars, seqVars, tempoVars, noteVars>>

\* the call op on instance m ends in e; bar, track and args are what the
\* caller passed
StoreCall(m, op, e, bar, track, args) ==
    /\ ncalls[m] < MaxCalls
    /\ track_data' = [track_data EXCEPT ![m] = e.track_data]
    /\ delta_time' = [delta_time EXCEPT ![m] = e.delta_time]
    /\ delay' = [delay EXCEPT ![m] = e.delay]
    /\ bpm' = [bpm EXCEPT ![m] = e.bpm]
    /\ change_instrument' = [change_instrument EXCEPT ![m] = e.change_instrument]
    /\ instrument' = [instrument EXCEPT ![m] = e.instrument]
    /\ ncalls' = [ncalls EXCEPT ![m] = @ + 1]
    /\ last_call' = [op |-> op, m |-> m, raised |-> e.err, before |-> Enc(m),
                     bar |-> bar, track |-> track, args |-> args]
    /\ UNCHANGED <<vlqVars, seqVars, tempoVars, noteVars>>

Store(m, op, e, bar) == StoreCall(m, op, e, bar, NoTrack, <<>>)

Instances == DOMAIN track_data

Call_play_Note ==
    \E m \in Instances, note \in Notes :
        Store(m, "play_Note", play_Note(Enc(m), note), NoBar)

Call_stop_Note ==
    \E m \in Instances, note \in {NoteC, NoteCh16} :
        Store(m, "stop_Note", stop_Note(Enc(m), note), NoBar)

Call_play_NoteContainer ==
    \E m \in Instances, nc \in Containers :
        Store(m, "play_NoteContainer", play_NoteContainer(Enc(m), nc), NoBar)

Call_stop_NoteContainer ==
    \E m \in Instances, nc \in Containers :
        Store(m, "stop_NoteContainer", stop_NoteContainer(Enc(m), nc), NoBar)

Call_set_instrument ==
    \E m \in Instances, a \in {<<1, 5, 1>>, <<1, 128, 1>>, <<16, 5, 1>>, <<1, 5, 200>>} :
        StoreCall(m, "set_instrument", set_instrument(Enc(m), a[1], a[2], a[3]),
                  NoBar, NoTrack, a)

Call_set_tempo ==
    \E m \in Instances, tempo \in {90, 3} :
        StoreCall(m, "set_tempo", set_tempo(Enc(m), tempo), NoBar, NoTrack, <<tempo>>)

Call_set_deltatime ==
    \E m \in Instances, ticks \in {200} :
        Store(m, "set_deltatime", set_deltatime(Enc(m), ticks), NoBar)

Call_set_meter ==
    \E m \in Instances, meter \in {<<3, 4>>} :
        Store(m, "set_meter", set_meter(Enc(m), meter), NoBar)

Call_set_key ==
    \E m \in Instances, key \in {"G", "f#", "h"} :
        Store(m, "set_key", set_key(Enc(m), key), NoBar)

Call_set_track_name ==
    \E m \in Instances, name \in {<<84, 49>>} :
        Store(m, "set_track_name", set_track_name(Enc(m), name), NoBar)

Call_reset ==
    \E m \in Instances : Store(m, "reset", reset(Enc(m)), NoBar)

Call_play_Bar ==
    \E m \in Instances, bar \in Bars :
        Store(m, "play_Bar", play_Bar(Enc(m), bar), bar)

Call_play_Track ==
    \E m \in Instances, track \in Tracks :
        StoreCall(m, "play_Track", play_Track(Enc(m), track), NoBar, track, <<>>)

NextEnc ==
    \/ Call_play_Note
    \/ Call_stop_Note
    \/ Call_play_NoteContainer
    \/ Call_stop_NoteContainer
    \/ Call_set_instrument
    \/ Call_set_tempo
    \/ Call_set_deltatime
    \/ Call_set_meter
    \/ Call_set_key
    \/ Call_set_track_name
    \/ Call_reset
    \/ Call_play_Bar
    \/ Call_play_Track

\* two instances driven by one caller: the calls of both, in any order, up
\* to MaxTotalCalls together
NextEnc2 ==
    \/ ncalls[1] + ncalls[2] < MaxTotalCalls /\ Call_play_Note
    \/ ncalls[1] + ncalls[2] < MaxTotalCalls /\ Call_set_instrument
    \/ ncalls[1] + ncalls[2] < MaxTotalCalls /\ Call_set_tempo
    \/ ncalls[1] + ncalls[2] < MaxTotalCalls /\ Call_set_deltatime
    \/ ncalls[1] + ncalls[2] < MaxTotalCalls /\ Call_reset
    \/ ncalls[1] + ncalls[2] < MaxTotalCalls /\ Call_play_Track

----------------------------------------------------------------------------
(* Python dicts, kept in insertion order: sequences of [t, events] with     *)
(* distinct keys t                                                          *)

DictKeys(d) == {d[i].t : i \in 1..Len(d)}
DictGet(d, t) == d[CHOOSE i \in 1..Len(d) : d[i].t = t].events

\* d[t] = events: a present key keeps its position
DictSet(d, t, events) ==
    IF t \in DictKeys(d)
    THEN [i \in 1..Len(d) |-> IF d[i].t = t THEN [t |-> t, events |-> events]
                              ELSE d[i]]
    ELSE Append(d, [t |-> t, events |-> events])

\* d[t] = [event]
SetDefaultAppend_replace(d, t, event) == DictSet(d, t, <<event>>)

\* d.setdefault(t, []).append(event)
SetDefaultAppend(d, t, event) ==
    IF t \in DictKeys(d) THEN DictSet(d, t, Append(DictGet(d, t), event))
    ELSE DictSet(d, t, <<event>>)

\* sortedcontainers.SortedDict(d): the items in ascending order of the keys
RECURSIVE SortedInsert(_, _)
SortedInsert(sd, item) ==
    IF sd = <<>> THEN <<item>>
    ELSE IF item.t < Head(sd).t THEN <<item>> \o sd
    ELSE <<Head(sd)>> \o SortedInsert(Tail(sd), item)

\* the items in insertion order
SortedDict_unsorted(d) == d

RECURSIVE SortedDict(_)
SortedDict(d) ==
    IF d = <<>> THEN <<>>
    ELSE SortedInsert(SortedDict(SubSeq(d, 1, Len(d) - 1)), d[Len(d)])

----------------------------------------------------------------------------
(* mingus.containers.track: MidiControl and ControlChangeEvent *)

VIBRATO == [name |-> "VIBRATO", value |-> 1]
VOLUME == [name |-> "VOLUME", value |-> 7]
SUSTAIN == [name |-> "SUSTAIN", value |-> 64]

NoNote == MkNote(0, 0, 0, 0)
NoControl == [name |-> "", value |-> 0]

\* the dict that ControlChangeEvent.put_into_score appends
ControlChangeDict(channel, control, value) ==
    [func |-> "control_change", channel |-> channel, control |-> control,
     value |-> value, note |-> NoNote, velocity |-> 0]

\* the dicts of the note events (recorded by code outside this model)
StartNoteDict(note, channel, velocity) ==
    [func |-> "start_note", channel |-> channel, control |-> NoControl,
     value |-> 0, note |-> note, velocity |-> velocity]
EndNoteDict(note, channel) ==
    [func |-> "end_note", channel |-> channel, control |-> NoControl,
     value |-> 0, note |-> note, velocity |-> 0]

\* ControlChangeEvent.put_into_score; beat is the rational beat.num/beat.den
\* and t is round((beat / bpm) * 60000.0)
PutTime(event, tempo) == RoundHalfEven(event.beat.num * 60000, event.beat.den * tempo)

put_into_score(sc, event, channel, tempo) ==
    LET t == PutTime(event, tempo)
    IN  SetDefaultAppend(sc, t, ControlChangeDict(channel, event.control, event.value))

----------------------------------------------------------------------------
(* Sequencer.play_Track and play_Tracks, for tracks without bars and       *)
(* snippets                                                                 *)

RECURSIVE PutEvents(_, _, _, _)
PutEvents(sc, events, channel, tempo) ==
    IF events = <<>> THEN sc
    ELSE PutEvents(put_into_score(sc, Head(events), channel, tempo),
                   Tail(events), channel, tempo)

\* Sequencer.play_Track
seq_play_Track(sc, track, channel, tempo) ==
    PutEvents(sc, track.events, channel, tempo)

\* the first loop of play_Tracks
RECURSIVE TrackInstrumentPairs(_, _, _)
TrackInstrumentPairs(tracks, channels, track_num) ==
    IF track_num > Len(tracks) THEN <<>>
    ELSE (IF tracks[track_num].instrument.none THEN <<>>
          ELSE <<[channel |-> channels[track_num],
                  instrument |-> tracks[track_num].instrument]>>)
         \o TrackInstrumentPairs(tracks, channels, track_num + 1)

\* the second loop of play_Tracks; tempo 0 stands for bpm=None, and the
\* variable bpm of the loop is assigned in every iteration
RECURSIVE RenderTracks(_, _, _, _, _)
RenderTracks(sc, tracks, channels, tempo, i) ==
    IF i > Len(tracks) \/ i > Len(channels) THEN sc
    ELSE LET tempo1 == IF tempo # 0 THEN tempo ELSE tracks[i].bpm
         IN  RenderTracks(seq_play_Track(sc, tracks[i], channels[i], tempo1),
                          tracks, channels, tempo1, i + 1)

\* Sequencer.play_Tracks: [score, instruments]
play_Tracks(sc, instrs, tracks, channels, tempo) ==
    [score |-> RenderTracks(sc, tracks, channels, tempo, 1),
     instruments |-> instrs \o TrackInstrumentPairs(tracks, channels, 1)]

----------------------------------------------------------------------------
(* Persistence: save_tracks and load_tracks *)

Digit(n) == <<"0", "1", "2", "3", "4", "5", "6", "7", "8", "9">>[n + 1]

RECURSIVE NatToStr(_)
NatToStr(n) == IF n < 10 THEN <<Digit(n)>> ELSE Append(NatToStr(n \div 10), Digit(n % 10))

\* str(n), as the sequence of its characters: the key of a JSON object
IntToStr(n) == IF n < 0 THEN <<"-">> \o NatToStr(0 - n) ELSE NatToStr(n)

DigitVal(c) ==
    CASE c = "0" -> 0 [] c = "1" -> 1 [] c = "2" -> 2 [] c = "3" -> 3
      [] c = "4" -> 4 [] c = "5" -> 5 [] c = "6" -> 6 [] c = "7" -> 7
      [] c = "8" -> 8 [] c = "9" -> 9 [] OTHER -> -1

RECURSIVE DigitsToNat(_)
DigitsToNat(cs) ==
    IF cs = <<>> THEN 0
    ELSE 10 * DigitsToNat(SubSeq(cs, 1, Len(cs) - 1)) + DigitVal(cs[Len(cs)])

AllDigits(cs) == cs # <<>> /\ \A i \in 1..Len(cs) : DigitVal(cs[i]) >= 0

\* a parse that drops the sign
StrToInt_nosign(cs) ==
    LET signed == cs # <<>> /\ cs[1] \in {"-", "+"}
        body == IF signed THEN Tail(cs) ELSE cs
    IN  [ok |-> AllDigits(body),
         val |-> IF ~AllDigits(body) THEN 0 ELSE DigitsToNat(body)]

\* int(k) of a string: [ok |-> no ValueError, val |-> the integer]
StrToInt(cs) ==
    LET signed == cs # <<>> /\ cs[1] \in {"-", "+"}
        body == IF signed THEN Tail(cs) ELSE cs
    IN  [ok |-> AllDigits(body),
         val |-> IF ~AllDigits(body) THEN 0
                 ELSE IF signed /\ cs[1] = "-" THEN 0 - DigitsToNat(body)
                 ELSE DigitsToNat(body)]

\* mingus_json.dump followed by mingus_json.load: the document that comes
\* back has every value unchanged and the keys of the score as strings
JsonDocument(to_save) ==
    [exists |-> TRUE, has_instruments |-> TRUE, has_score |-> TRUE,
     instruments |-> to_save.instruments,
     score |-> [i \in 1..Len(to_save.score) |->
                   [key |-> IntToStr(to_save.score[i].t),
                    events |-> to_save.score[i].events]]]

NoFile ==
    [exists |-> FALSE, has_instruments |-> FALSE, has_score |-> FALSE,
     instruments |-> <<>>, score |-> <<>>]

\* save_tracks after its call of play_Tracks: the document written
SavedDocument(sc, instrs) ==
    JsonDocument([instruments |-> instrs, score |-> SortedDict(sc)])

\* {int(k): v for k, v in items}
RECURSIVE IntKeyed(_)
IntKeyed(items) ==
    IF items = <<>> THEN <<>>
    ELSE DictSet(IntKeyed(SubSeq(items, 1, Len(items) - 1)),
                 StrToInt(items[Len(items)].key).val, items[Len(items)].events)

\* load_tracks on the document data: [raised, score, instruments]
load_tracks(sc, instrs, data) ==
    IF ~data.exists \/ ~data.has_instruments
    THEN [raised |-> TRUE, score |-> sc, instruments |-> instrs]
    ELSE IF ~data.has_score
            \/ \E i \in 1..Len(data.score) : ~StrToInt(data.score[i].key).ok
    THEN [raised |-> TRUE, score |-> sc, instruments |-> data.instruments]
    ELSE [raised |-> FALSE, score |-> IntKeyed(data.score),
          instruments |-> data.instruments]

----------------------------------------------------------------------------
(* Sequencer.play_score and the calls it makes on the synth *)

SinkCall(f, note, nums) == [f |-> f, note |-> note, nums |-> nums]

\* synth.sleep(x): nums is <<numerator, denominator>> of x in seconds
SleepCall(num, den) == SinkCall("sleep", NoNote, <<num, den>>)

\* the instruments from the last to the first
InstrumentCalls_rev(instrs) ==
    [i \in 1..Len(instrs) |->
        SinkCall("set_instrument", NoNote,
                 <<instrs[Len(instrs) + 1 - i].channel,
                   instrs[Len(instrs) + 1 - i].instrument.number,
                   instrs[Len(instrs) + 1 - i].instrument.bank>>)]

\* the calls of the loop over self.instruments
InstrumentCalls(instrs) ==
    [i \in 1..Len(instrs) |->
        SinkCall("set_instrument", NoNote,
                 <<instrs[i].channel, instrs[i].instrument.number,
                   instrs[i].instrument.bank>>)]

\* the call made for one event; an event of another kind makes none
EventCalls(event) ==
    IF event.func = "start_note"
    THEN IF event.note.percussion
         THEN <<SinkCall("play_percussion_note", event.note,
                         <<event.channel, event.velocity>>)>>
         ELSE <<SinkCall("play_note", event.note,
                         <<event.channel, event.velocity>>)>>
    ELSE IF event.func = "end_note"
    THEN IF event.note.percussion
         THEN <<SinkCall("stop_percussion_note", event.note, <<event.channel>>)>>
         ELSE <<SinkCall("stop_note", event.note, <<event.channel>>)>>
    ELSE IF event.func = "control_change"
    THEN <<SinkCall("control_change", NoNote,
                    <<event.channel, event.control.value, event.value>>)>>
    ELSE <<>>

RECURSIVE DispatchCalls(_)
DispatchCalls(events) ==
    IF events = <<>> THEN <<>>
    ELSE EventCalls(Head(events)) \o DispatchCalls(Tail(events))

\* an iteration that sleeps until start_time instead of for dt
BucketCalls_abs(start_time, events, cursor) ==
    (IF start_time > 0 THEN <<SleepCall(start_time, 1000)>> ELSE <<>>)
    \o DispatchCalls(events)

\* the calls of one iteration of the loop over score.items()
BucketCalls(start_time, events, cursor) ==
    LET dt == start_time - cursor
    IN  (IF dt > 0 THEN <<SleepCall(dt, 1000)>> ELSE <<>>)
        \o DispatchCalls(events)

----------------------------------------------------------------------------
(* The arguments of the Sequencer calls *)

MkBeat(num, den) == [num |-> num, den |-> den]
MkControlChangeEvent(beat, control, value) ==
    [beat |-> beat, control |-> control, value |-> value]

EventAtZero == MkControlChangeEvent(MkBeat(0, 1), VOLUME, 100)
EventAtOne == MkControlChangeEvent(MkBeat(1, 1), SUSTAIN, 127)
EventBefore == MkControlChangeEvent(MkBeat(-1, 2), VIBRATO, 5)
ControlChangeEvents == {EventAtZero, EventAtOne, EventBefore}

NoInstrument == [none |-> TRUE, number |-> 0, bank |-> 0]
Piano == [none |-> FALSE, number |-> 1, bank |-> 0]
Organ == [none |-> FALSE, number |-> 17, bank |-> 1]

MkSeqTrack(tempo, instr, events) ==
    [bpm |-> tempo, instrument |-> instr, events |-> events]

TrackA == MkSeqTrack(120, Piano, <<EventAtOne>>)
TrackB == MkSeqTrack(60, NoInstrument, <<EventAtOne, EventAtZero>>)
TrackC == MkSeqTrack(90, Organ, <<EventAtZero>>)
SeqTracks == {TrackA, TrackB, TrackC}
TrackLists == {<<TrackA>>, <<TrackB, TrackA>>, <<TrackC, TrackA>>}
Tempos == {0, 120}

PercKick ==
    [percussion |-> TRUE, key_number |-> 36, octave |-> 0, semitone |-> 0,
     channel |-> 9, velocity |-> 64]

\* the scores a Sequencer is constructed with
InitScores ==
    { <<>>,
      << [t |-> 500, events |-> <<EndNoteDict(NoteC, 1), StartNoteDict(NoteE, 1, 64)>>],
         [t |-> 0, events |-> <<StartNoteDict(NoteC, 1, 64),
                                StartNoteDict(PercKick, 9, 100)>>],
         [t |-> 1000, events |-> <<EndNoteDict(NoteE, 1), EndNoteDict(PercKick, 9)>>] >>,
      << [t |-> 250, events |-> <<ControlChangeDict(2, VOLUME, 30)>>] >> }

\* documents that load_tracks cannot decode
BadDocuments ==
    { [exists |-> TRUE, has_instruments |-> FALSE, has_score |-> TRUE,
       instruments |-> <<>>,
       score |-> <<[key |-> <<"7">>, events |-> <<ControlChangeDict(1, VOLUME, 1)>>]>>],
      [exists |-> TRUE, has_instruments |-> TRUE, has_score |-> FALSE,
       instruments |-> <<[channel |-> 3, instrument |-> Organ]>>,
       score |-> <<>>],
      [exists |-> TRUE, has_instruments |-> TRUE, has_score |-> TRUE,
       instruments |-> <<[channel |-> 4, instrument |-> Piano]>>,
       score |-> <<[key |-> <<"7">>, events |-> <<ControlChangeDict(1, VOLUME, 1)>>],
                   [key |-> <<"1", "x">>, events |-> <<>>]>>] }

\* a well-formed document written by another program
GoodDocuments ==
    { [exists |-> TRUE, has_instruments |-> TRUE, has_score |-> TRUE,
       instruments |-> <<[channel |-> 5, instrument |-> Organ]>>,
       score |-> <<[key |-> <<"4", "0">>, events |-> <<ControlChangeDict(1, VOLUME, 1)>>],
                   [key |-> <<"-", "3">>, events |-> <<EndNoteDict(NoteC, 1)>>]>>] }

----------------------------------------------------------------------------
(* Sequencer: state and calls *)

NoArgs ==
    [tracks |-> <<>>, channels |-> <<>>, events |-> <<>>, channel |-> 0, tempo |-> 0]

\* the call op is over; args are what the caller passed
SeqDoneWith(op, raised, args) ==
    /\ nseq' = nseq + 1
    /\ last_seq' = [op |-> op, raised |-> raised, score |-> score,
                    instruments |-> instruments, args |-> args]

SeqDone(op, raised) == SeqDoneWith(op, raised, NoArgs)

Call_put_into_score ==
    \E event \in ControlChangeEvents, channel \in {1, 2}, tempo \in {120} :
        /\ pc = "idle" /\ nseq < MaxSeqCalls
        /\ score' = put_into_score(score, event, channel, tempo)
        /\ SeqDoneWith("put_into_score", FALSE,
                       [NoArgs EXCEPT !.events = <<event>>, !.channel = channel,
                                      !.tempo = tempo])
        /\ UNCHANGED <<instruments, file, sorted_score, idx, the_time,
                       cancelled, calls, pc, encVars, vlqVars, tempoVars, noteVars>>

Call_seq_play_Track ==
    \E track \in SeqTracks, channel \in {1}, tempo \in {120} :
        /\ pc = "idle" /\ nseq < MaxSeqCalls
        /\ score' = seq_play_Track(score, track, channel, tempo)
        /\ SeqDone("play_Track", FALSE)
        /\ UNCHANGED <<instruments, file, sorted_score, idx, the_time,
                       cancelled, calls, pc, encVars, vlqVars, tempoVars, noteVars>>

Call_play_Tracks ==
    \E tracks \in TrackLists, tempo \in Tempos :
        LET r == play_Tracks(score, instruments, tracks, <<1, 2>>, tempo)
        IN  /\ pc = "idle" /\ nseq < MaxSeqCalls
            /\ score' = r.score
            /\ instruments' = r.instruments
            /\ SeqDoneWith("play_Tracks", FALSE,
                           [NoArgs EXCEPT !.tracks = tracks, !.channels = <<1, 2>>,
                                          !.tempo = tempo])
            /\ UNCHANGED <<file, sorted_score, idx, the_time, cancelled,
                           calls, pc, encVars, vlqVars, tempoVars, noteVars>>

Call_save_tracks ==
    \E tracks \in TrackLists \cup {<<>>}, tempo \in {120} :
        LET r == play_Tracks(score, instruments, tracks, <<1, 2>>, tempo)
        IN  /\ pc = "idle" /\ nseq < MaxSeqCalls
            /\ score' = r.score
            /\ instruments' = r.instruments
            /\ file' = SavedDocument(r.score, r.instruments)
            /\ SeqDone("save_tracks", FALSE)
            /\ UNCHANGED <<sorted_score, idx, the_time, cancelled, calls,
                           pc, encVars, vlqVars, tempoVars, noteVars>>

\* load_tracks reads the file of save_tracks or another document
Call_load_tracks ==
    \E data \in {file} \cup BadDocuments \cup GoodDocuments :
        LET r == load_tracks(score, instruments, data)
        IN  /\ pc = "idle" /\ nseq < MaxSeqCalls
            /\ score' = r.score
            /\ instruments' = r.instruments
            /\ SeqDone(IF data = file THEN "load_tracks" ELSE "load_other", r.raised)
            /\ UNCHANGED <<file, sorted_score, idx, the_time, cancelled,
                           calls, pc, encVars, vlqVars, tempoVars, noteVars>>

\* play_score up to the loop: the sorted copy and the instruments
PlayScoreStart ==
    /\ pc = "idle" /\ nseq < MaxSeqCalls
    /\ sorted_score' = SortedDict(score)
    /\ calls' = InstrumentCalls(instruments)
    /\ the_time' = 0
    /\ idx' = 1
    /\ cancelled' = FALSE
    /\ pc' = "loop"
    /\ nseq' = nseq + 1
    /\ UNCHANGED <<score, instruments, file, last_seq, encVars, vlqVars, tempoVars, noteVars>>

\* an iteration that polls stop_func after the dispatch
PlayScoreIter_late ==
    \E stop \in BOOLEAN :
        /\ pc = "loop" /\ idx <= Len(sorted_score)
        /\ calls' = calls \o BucketCalls(sorted_score[idx].t,
                                         sorted_score[idx].events, the_time)
        /\ the_time' = sorted_score[idx].t
        /\ IF stop
           THEN cancelled' = TRUE /\ pc' = "drain" /\ UNCHANGED idx
           ELSE idx' = idx + 1 /\ UNCHANGED <<cancelled, pc>>
        /\ UNCHANGED <<score, instruments, file, sorted_score, nseq, last_seq,
                       encVars, vlqVars, tempoVars, noteVars>>

\* one iteration of the loop: stop is what stop_func returns (FALSE also
\* stands for stop_func=None)
PlayScoreIter ==
    \E stop \in BOOLEAN :
        /\ pc = "loop" /\ idx <= Len(sorted_score)
        /\ IF stop
           THEN /\ cancelled' = TRUE
                /\ pc' = "drain"
                /\ UNCHANGED <<calls, the_time, idx>>
           ELSE /\ calls' = calls \o BucketCalls(sorted_score[idx].t,
                                                 sorted_score[idx].events, the_time)
                /\ the_time' = sorted_score[idx].t
                /\ idx' = idx + 1
                /\ UNCHANGED <<cancelled, pc>>
        /\ UNCHANGED <<score, instruments, file, sorted_score, nseq, last_seq,
                       encVars, vlqVars, tempoVars, noteVars>>

\* after the loop
PlayScoreEnd ==
    /\ \/ pc = "drain"
       \/ pc = "loop" /\ idx > Len(sorted_score)
    /\ calls' = Append(calls, SleepCall(2, 1))
    /\ pc' = "idle"
    /\ last_seq' = [op |-> "play_score", raised |-> FALSE, score |-> score,
                    instruments |-> instruments, args |-> NoArgs]
    /\ UNCHANGED <<score, instruments, file, sorted_score, idx, the_time,
                   cancelled, nseq, encVars, vlqVars, tempoVars, noteVars>>

NextSeq ==
    \/ Call_put_into_score
    \/ Call_seq_play_Track
    \/ Call_play_Tracks
    \/ Call_save_tracks
    \/ Call_load_tracks
    \/ PlayScoreStart
    \/ PlayScoreIter
    \/ PlayScoreEnd

----------------------------------------------------------------------------
(* int_to_varbyte on drawn tick counts *)

VlqInputs ==
    {v \in UNION {(Pow(128, k) - MaxVlqOff)..(Pow(128, k) + MaxVlqOff) :
                    k \in 0..MaxVlqGroups} : v >= 0}

Apply_int_to_varbyte ==
    /\ vlq_bytes = <<>>
    /\ vlq_bytes' = int_to_varbyte(vlq_value)
    /\ UNCHANGED <<vlq_value, encVars, seqVars, tempoVars, noteVars>>

NextVlq == Apply_int_to_varbyte

----------------------------------------------------------------------------
(* set_tempo_event on drawn bpm values *)

\* the outcome of set_tempo_event(tempo_bpm) on instance 1, with the
\* delta-time the instance had at the call
Apply_set_tempo_event ==
    LET r == set_tempo_event(Enc(1), tempo_bpm)
    IN  /\ ~tempo_event.applied
        /\ tempo_event' = [applied |-> TRUE, ok |-> r.ok, bytes |-> r.bytes,
                           delta_time |-> delta_time[1]]
        /\ UNCHANGED <<tempo_bpm, encVars, vlqVars, seqVars, noteVars>>

\* the delta-time is set by calls before the event is asked for
NextTempo ==
    \/ ~tempo_event.applied /\ Call_set_deltatime
    \/ Apply_set_tempo_event

----------------------------------------------------------------------------
(* mingus.containers.note: Note and PercussionNote. An optional argument is *)
(* a sequence: <<>> is None and <<x>> the value x.  A method is an operator *)
(* from a note record to a note record; err tells that it raised.           *)

_DEFAULT_CHANNEL == 1
_DEFAULT_VELOCITY == 64

\* mingus.core.notes
is_valid_note(name) == name \in {"C", "E", "Bb"}
int_to_note(i) == <<"C", "C#", "D", "Eb", "E", "F", "F#", "G", "Ab", "A", "Bb", "B">>[i + 1]

NoObject ==
    [made |-> FALSE, percussion |-> FALSE, name |-> "", octave |-> 0,
     velocity |-> 0, channel |-> <<>>, err |-> FALSE]

\* channel is <<>> when the caller passes None: 0 <= None raises TypeError
set_channel(n, channel) ==
    IF n.err THEN n
    ELSE IF channel = <<>> \/ ~(0 <= channel[1] /\ channel[1] < 16) THEN [n EXCEPT !.err = TRUE]
    ELSE [n EXCEPT !.channel = channel]

set_velocity(n, velocity) ==
    IF n.err THEN n
    ELSE IF velocity = <<>> \/ ~(0 <= velocity[1] /\ velocity[1] < 128) THEN [n EXCEPT !.err = TRUE]
    ELSE [n EXCEPT !.velocity = velocity[1]]

\* the dict dynamics: which keys it has, and their values
NoDynamics ==
    [has_velocity |-> FALSE, velocity |-> <<>>, has_channel |-> FALSE, channel |-> <<>>]

\* the property dynamics of a note
dynamics(n) ==
    [has_velocity |-> TRUE, velocity |-> <<n.velocity>>,
     has_channel |-> TRUE, channel |-> n.channel]

\* a name is [text, dash, octave]: "text" or "text-octave"
MkName(text, dash, octave) == [text |-> text, dash |-> dash, octave |-> octave]

set_note(n, name, octave, dyn, velocity, channel) ==
    LET n1 == IF velocity # <<>> THEN set_velocity(n, velocity)
              ELSE IF dyn.has_velocity THEN set_velocity(n, dyn.velocity)
              ELSE n
        n2 == IF channel # <<>> THEN set_channel(n1, channel) ELSE n1
        n3 == IF dyn.has_channel THEN set_channel(n2, dyn.channel) ELSE n2
    IN  IF n3.err THEN n3
        ELSE IF ~is_valid_note(name.text) THEN [n3 EXCEPT !.err = TRUE]
        ELSE [n3 EXCEPT !.name = name.text,
                        !.octave = IF name.dash THEN name.octave ELSE octave]

empty(n) ==
    [n EXCEPT !.name = "", !.octave = 0, !.channel = <<_DEFAULT_CHANNEL>>,
              !.velocity = _DEFAULT_VELOCITY]

from_int(n, integer) ==
    [n EXCEPT !.name = int_to_note(integer % 12), !.octave = integer \div 12]

\* Note(name, octave, velocity=velocity, channel=channel); name is a
\* string [kind "str"], another note [kind "note"] or an int [kind "int"]
Note_init(name, octave, velocity, channel) ==
    LET n0 == [NoObject EXCEPT !.made = TRUE, !.channel = channel,
                               !.velocity = velocity]
        dyn == [has_velocity |-> TRUE, velocity |-> <<velocity>>,
                has_channel |-> channel # <<>>, channel |-> channel]
    IN  IF name.kind = "str" THEN set_note(n0, name.str, octave, dyn, <<>>, <<>>)
        ELSE IF name.kind = "note"
        THEN set_note(n0, MkName(name.note.name, FALSE, 0), name.note.octave,
                      dynamics(name.note), <<>>, <<>>)
        ELSE from_int(n0, name.int)

\* PercussionNote(name, number, velocity=velocity, channel=channel)
PercussionNote_init(number, velocity, channel) ==
    IF ~(0 <= velocity /\ velocity < 128) THEN [NoObject EXCEPT !.err = TRUE]
    ELSE [NoObject EXCEPT !.made = TRUE, !.percussion = TRUE, !.name = "36",
                          !.velocity = velocity, !.channel = channel]

\* the arguments of the calls
NoteVelocities == {0, 127, 128, -1}
NoteChannels == {0, 15, 16, -1}
\* the first argument of Note: a string, another note or an int
NameArg(kind, text, n, i) ==
    [kind |-> kind, str |-> MkName(text, FALSE, 0), note |-> n, int |-> i]

\* a constructor that raises yields no object: the variable keeps its object
NoteMade(op, n) ==
    /\ note_obj' = IF n.err THEN note_obj ELSE n
    /\ last_note' = [op |-> op, raised |-> n.err, before |-> note_obj]
    /\ UNCHANGED <<encVars, vlqVars, seqVars, tempoVars>>

\* a method that raises keeps what it wrote before
NoteDone(op, n) ==
    /\ note_obj.made
    /\ note_obj' = [n EXCEPT !.err = FALSE]
    /\ last_note' = [op |-> op, raised |-> n.err, before |-> note_obj]
    /\ UNCHANGED <<encVars, vlqVars, seqVars, tempoVars>>

New_Note ==
    \E name \in {NameArg("str", "C", NoObject, 0), NameArg("str", "H", NoObject, 0),
                  NameArg("int", "", NoObject, 60)}
                \cup (IF note_obj.made THEN {NameArg("note", "", note_obj, 0)} ELSE {}),
       velocity \in NoteVelocities,
       channel \in {<<>>} \cup {<<c>> : c \in NoteChannels} :
        NoteMade("Note", Note_init(name, 4, velocity, channel))

New_PercussionNote ==
    \E velocity \in NoteVelocities,
       channel \in {<<>>} \cup {<<c>> : c \in NoteChannels} :
        NoteMade("PercussionNote", PercussionNote_init(36, velocity, channel))

Call_set_channel ==
    \E channel \in NoteChannels :
        NoteDone("set_channel", set_channel(note_obj, <<channel>>))

Call_set_velocity ==
    \E velocity \in NoteVelocities :
        NoteDone("set_velocity", set_velocity(note_obj, <<velocity>>))

Call_set_note ==
    \E name \in {MkName("C", FALSE, 0), MkName("E", TRUE, 5), MkName("H", FALSE, 0)},
       dyn \in {NoDynamics,
                [NoDynamics EXCEPT !.has_velocity = TRUE, !.velocity = <<10>>],
                [NoDynamics EXCEPT !.has_channel = TRUE, !.channel = <<3>>],
                [NoDynamics EXCEPT !.has_channel = TRUE, !.channel = <<16>>]},
       velocity \in {<<>>, <<127>>, <<128>>}, channel \in {<<>>, <<15>>, <<16>>} :
        NoteDone("set_note", set_note(note_obj, name, 4, dyn, velocity, channel))

Call_empty == NoteDone("empty", empty(note_obj))

NextNote ==
    \/ New_Note
    \/ New_PercussionNote
    \/ Call_set_channel
    \/ Call_set_velocity
    \/ Call_set_note
    \/ Call_empty

----------------------------------------------------------------------------
(* Initial states and specifications *)

InitEncWith(ms) ==
    LET e == MidiTrackInit(120)
    IN  /\ track_data = [m \in ms |-> e.track_data]
        /\ delta_time = [m \in ms |-> e.delta_time]
        /\ delay = [m \in ms |-> e.delay]
        /\ bpm = [m \in ms |-> e.bpm]
        /\ change_instrument = [m \in ms |-> e.change_instrument]
        /\ instrument = [m \in ms |-> e.instrument]
        /\ ncalls = [m \in ms |-> 0]
        /\ last_call = [op |-> "__init__", m |-> 1, raised |-> e.err,
                        before |-> ClassAttrs, bar |-> NoBar, track |-> NoTrack,
                        args |-> <<>>]

InitVlqWith(vs) ==
    /\ vlq_value \in vs
    /\ vlq_bytes = <<>>

\* Sequencer(score): self.score = score or {}
InitSeqWith(scores) ==
    /\ score \in scores
    /\ instruments = <<>>
    /\ file = NoFile
    /\ pc = "idle"
    /\ sorted_score = <<>>
    /\ idx = 1
    /\ the_time = 0
    /\ cancelled = FALSE
    /\ calls = <<>>
    /\ nseq = 0
    /\ last_seq = [op |-> "__init__", raised |-> FALSE, score |-> <<>>,
                   instruments |-> <<>>, args |-> NoArgs]

\* no tempo event asked for yet, and no Note made yet
InitRestWith(bs) ==
    /\ tempo_bpm \in bs
    /\ tempo_event = [applied |-> FALSE, ok |-> FALSE, bytes |-> <<>>,
                      delta_time |-> <<>>]
    /\ note_obj = NoObject
    /\ last_note = [op |-> "none", raised |-> FALSE, before |-> NoObject]

InitRest == InitRestWith({120})

InitEnc == InitEncWith({1}) /\ InitVlqWith({0}) /\ InitSeqWith({<<>>}) /\ InitRest
InitVlq == InitEncWith({1}) /\ InitVlqWith(VlqInputs) /\ InitSeqWith({<<>>}) /\ InitRest
InitSeq == InitEncWith({1}) /\ InitVlqWith({0}) /\ InitSeqWith(InitScores) /\ InitRest
InitEnc2 == InitEncWith({1, 2}) /\ InitVlqWith({0}) /\ InitSeqWith({<<>>}) /\ InitRest
InitTempo == InitEncWith({1}) /\ InitVlqWith({0}) /\ InitSeqWith({<<>>})
             /\ InitRestWith(1..MaxBpm)

SpecEnc == InitEnc /\ [][NextEnc]_vars
SpecVlq == InitVlq /\ [][NextVlq]_vars
SpecSeq == InitSeq /\ [][NextSeq]_vars
SpecTempo == InitTempo /\ [][NextTempo]_vars
SpecNote == InitEnc /\ [][NextNote]_vars
SpecEnc2 == InitEnc2 /\ [][NextEnc2]_vars

----------------------------------------------------------------------------
(* Reading a MIDI byte stream back *)

\* the variable-length quantity at pos: [val, next], val = -1 when the
\* stream ends inside it
RECURSIVE ReadVlq(_, _, _)
ReadVlq(bs, pos, acc) ==
    IF pos > Len(bs) THEN [val |-> -1, next |-> pos]
    ELSE IF bs[pos] >= 128 THEN ReadVlq(bs, pos + 1, acc * 128 + (bs[pos] - 128))
    ELSE [val |-> acc * 128 + bs[pos], next |-> pos + 1]

\* the events of a stream: [delta, status, data]
RECURSIVE ParseEvents(_, _)
ParseEvents(bs, pos) ==
    IF pos > Len(bs) THEN <<>>
    ELSE LET d == ReadVlq(bs, pos, 0)
             status == bs[d.next]
         IN  IF status = 255
             THEN LET ln == ReadVlq(bs, d.next + 2, 0)
                  IN  <<[delta |-> d.val, status |-> status,
                         data |-> <<bs[d.next + 1]>>
                                  \o SubSeq(bs, ln.next, ln.next + ln.val - 1)]>>
                      \o ParseEvents(bs, ln.next + ln.val)
             ELSE LET n == IF status \div 16 = PROGRAM_CHANGE THEN 1 ELSE 2
                  IN  <<[delta |-> d.val, status |-> status,
                         data |-> SubSeq(bs, d.next + 1, d.next + n)]>>
                      \o ParseEvents(bs, d.next + n + 1)

BigEndian(bs) ==
    LET F[i \in 0..Len(bs)] == IF i = 0 THEN 0 ELSE 256 * F[i - 1] + bs[i]
    IN  F[Len(bs)]

----------------------------------------------------------------------------
(* C1: for every tick count t >= 0, int_to_varbyte(t) is the minimal       *)
(* big-endian sequence of 7-bit groups in which every byte but the last    *)
(* has bit 0x80 set and the last has it clear, and decoding it yields t;   *)
(* 0 is the single byte 00, 127 is one byte, 128 is two bytes of which the *)
(* first has the high bit set.                                             *)
C1_VarbyteRoundTrip ==
    vlq_bytes # <<>> =>
        /\ \A i \in 1..Len(vlq_bytes) :
              /\ vlq_bytes[i] \in 0..255
              /\ (vlq_bytes[i] >= 128) <=> (i < Len(vlq_bytes))
        /\ ReadVlq(vlq_bytes, 1, 0) = [val |-> vlq_value, next |-> Len(vlq_bytes) + 1]
        /\ (Len(vlq_bytes) > 1 => vlq_bytes[1] # 128)
        /\ (vlq_value = 0 => vlq_bytes = <<0>>)
        /\ (vlq_value = 127 => Len(vlq_bytes) = 1)
        /\ (vlq_value = 128 => Len(vlq_bytes) = 2 /\ vlq_bytes[1] >= 128)

C1_Witness == vlq_value = 16384 /\ Len(vlq_bytes) = 3

(* C2: get_midi_data() is the 4-byte track tag, a 4-byte big-endian        *)
(* length, track_data and the end-of-track event 00 FF 2F 00, and the      *)
(* length field is the number of bytes that follow it, len(track_data)+4.  *)
C2_ChunkLayout ==
    \A m \in Instances :
        LET d == get_midi_data(Enc(m))
            n == Len(track_data[m])
        IN  /\ Len(d) = n + 12
            /\ SubSeq(d, 1, 4) = TRACK_HEADER
            /\ BigEndian(SubSeq(d, 5, 8)) = n + 4
            /\ BigEndian(SubSeq(d, 5, 8)) = Len(d) - 8
            /\ SubSeq(d, 9, 8 + n) = track_data[m]
            /\ SubSeq(d, 9 + n, 12 + n) = <<0, 255, 47, 0>>

C2_Witness ==
    \E m \in Instances :
        /\ ncalls[m] = MaxCalls
        /\ ~last_call.raised
        /\ Len(track_data[m]) > 16

(* C3: a call of play_Note, play_NoteContainer or set_instrument that      *)
(* fails on an out-of-range velocity, pitch, channel or program leaves     *)
(* track_data byte for byte as it was before the call.                     *)
C3_FailedCallWritesNothing ==
    (/\ last_call.raised
     /\ last_call.op \in {"play_Note", "play_NoteContainer", "set_instrument"})
    => track_data[last_call.m] = last_call.before.track_data

----------------------------------------------------------------------------
(* Terms of the properties of play_score *)

\* a playback is under way or was the last call
Playing == pc \in {"loop", "drain"} \/ (pc = "idle" /\ last_seq.op = "play_score")
PlaybackOver == pc = "idle" /\ last_seq.op = "play_score"

\* the calls after those that set the instruments
TimedCalls == SubSeq(calls, Len(instruments) + 1, Len(calls))

RECURSIVE AscendingKeys(_)
AscendingKeys(S) ==
    IF S = {} THEN <<>>
    ELSE LET least == CHOOSE x \in S : \A y \in S : x <= y
         IN  <<least>> \o AscendingKeys(S \ {least})

RECURSIVE SumSeq(_)
SumSeq(ns) == IF ns = <<>> THEN 0 ELSE Head(ns) + SumSeq(Tail(ns))

IsTimedSleep(call) == call.f = "sleep" /\ call.nums[2] = 1000
IsDispatch(call) == call.f # "sleep" /\ call.f # "set_instrument"

\* the milliseconds of a sleep call
SleepMs(call) == (call.nums[1] * 1000) \div call.nums[2]

\* the sleep calls between buckets among the first n timed calls, in ms
WaitsBefore(n) ==
    LET timed == SelectSeq(SubSeq(TimedCalls, 1, n), IsTimedSleep)
    IN  [i \in 1..Len(timed) |-> SleepMs(timed[i])]

\* the number of events recorded at timestamps below t
EventsBelow(t) ==
    SumSeq([i \in 1..Len(score) |-> IF score[i].t < t THEN Len(score[i].events) ELSE 0])

\* the log that dispatching the first k timestamps of ks in order produces
RECURSIVE ExpectedLog(_, _)
ExpectedLog(ks, k) ==
    IF k = 0 THEN <<>>
    ELSE LET wait == ks[k] - (IF k = 1 THEN 0 ELSE ks[k - 1])
         IN  ExpectedLog(ks, k - 1)
             \o (IF wait > 0 THEN <<SleepCall(wait, 1000)>> ELSE <<>>)
             \o DispatchCalls(DictGet(score, ks[k]))

(* C4 as stated: once stop_func has returned true, no sink method is       *)
(* called at all, not even sleep.                                          *)
C4_NoCallAfterCancel ==
    [][(cancelled /\ pc = "drain") => calls' = calls]_vars

(* C4 as amended: the poll that returns true makes no sink call and ends   *)
(* the loop; the only sink call after it is the final synth.sleep(2).      *)
C4_OnlyDrainAfterCancel ==
    [][/\ (pc = "loop" /\ cancelled') => (pc' = "drain" /\ calls' = calls)
       /\ (cancelled /\ pc = "drain")
             => (pc' = "idle" /\ calls' = Append(calls, SleepCall(2, 1)))]_vars

C4_Witness ==
    /\ PlaybackOver /\ cancelled
    /\ idx = 2 /\ Len(sorted_score) >= 2
    /\ Len(SelectSeq(calls, IsDispatch)) = Len(sorted_score[1].events)
    /\ calls[Len(calls)] = SleepCall(2, 1)

(* C5: without cancellation and with timestamps >= 0, the cursor starts at *)
(* 0 and is the last timestamp dispatched; a bucket at t is preceded by    *)
(* one sleep((t - cursor)/1000) when t - cursor > 0 and by none when it is *)
(* 0; the sleep requested before the events at t is t milliseconds in all. *)
C5_SleepsAddUp ==
    (Playing /\ ~cancelled /\ \A t \in DictKeys(score) : t >= 0) =>
        LET ks == AscendingKeys(DictKeys(score))
            k == idx - 1
            waits == [j \in 1..k |-> ks[j] - (IF j = 1 THEN 0 ELSE ks[j - 1])]
            positive == SelectSeq(waits, LAMBDA w : w > 0)
        IN  /\ the_time = (IF k = 0 THEN 0 ELSE ks[k])
            /\ WaitsBefore(Len(TimedCalls)) = positive
            /\ SumSeq(WaitsBefore(Len(TimedCalls))) = the_time
            /\ \A i \in 1..Len(TimedCalls) :
                  IsDispatch(TimedCalls[i]) =>
                     \E t \in DictKeys(score) :
                        /\ SumSeq(WaitsBefore(i)) = t
                        /\ Len(SelectSeq(SubSeq(TimedCalls, 1, i), IsDispatch))
                              \in (EventsBelow(t) + 1)..EventsBelow(t + 1)
            /\ \A i \in 1..Len(TimedCalls) :
                  IsTimedSleep(TimedCalls[i]) =>
                     /\ i < Len(TimedCalls)
                     /\ IsDispatch(TimedCalls[i + 1])

C5_Witness ==
    /\ PlaybackOver /\ ~cancelled
    /\ DictKeys(score) = {0, 500, 1000}
    /\ WaitsBefore(Len(TimedCalls)) = <<500, 500>>

(* C6: the buckets are dispatched in ascending order of the timestamps     *)
(* whatever the insertion order, the events of a bucket in list order,     *)
(* with one sink call per event, and all the calls of a bucket are made    *)
(* before the next wait.                                                   *)
C6_AscendingDispatch ==
    Playing =>
        LET ks == AscendingKeys(DictKeys(score))
        IN  /\ idx - 1 <= Len(ks)
            /\ TimedCalls = ExpectedLog(ks, idx - 1)
                            \o (IF PlaybackOver THEN <<SleepCall(2, 1)>> ELSE <<>>)
            /\ \A i \in 1..Len(score) : \A j \in 1..Len(score[i].events) :
                  Len(EventCalls(score[i].events[j])) = 1
            /\ (PlaybackOver /\ ~cancelled) => idx - 1 = Len(ks)

C6_Witness ==
    /\ PlaybackOver /\ ~cancelled
    /\ \E i \in 1..(Len(score) - 1) : score[i].t > score[i + 1].t
    /\ \E i \in 1..Len(score) : Len(score[i].events) >= 2

(* C7: play_score calls synth.set_instrument(channel, number, bank) once   *)
(* for each entry of self.instruments, in list order, before the first     *)
(* sleep, note or control-change call.                                     *)
C7_InstrumentsFirst ==
    Playing =>
        /\ Len(calls) >= Len(instruments)
        /\ \A i \in 1..Len(instruments) :
              calls[i] = SinkCall("set_instrument", NoNote,
                                  <<instruments[i].channel,
                                    instruments[i].instrument.number,
                                    instruments[i].instrument.bank>>)
        /\ \A i \in (Len(instruments) + 1)..Len(calls) :
              calls[i].f # "set_instrument"

C7_Witness ==
    /\ PlaybackOver
    /\ Len(instruments) >= 2 /\ instruments[1] # instruments[2]
    /\ Len(SelectSeq(calls, IsDispatch)) >= 2

----------------------------------------------------------------------------
(* Terms of the properties of play_Bar *)

\* the bytes that the last MidiTrack call appended
Appended ==
    SubSeq(track_data[last_call.m], Len(last_call.before.track_data) + 1,
           Len(track_data[last_call.m]))

IsNoteEvent(ev) == ev.status \div 16 \in {NOTE_ON, NOTE_OFF}

\* the note events of the slots, as the rule of the groups gives them
GroupEvents(kind, notes, first_delta) ==
    [i \in 1..Len(notes) |->
        [delta |-> IF i = 1 THEN first_delta ELSE 0,
         status |-> 16 * kind + notes[i].channel,
         data |-> <<NoteInt(notes[i]) + 12, notes[i].velocity>>]]

RECURSIVE ExpectedNoteEvents(_, _)
ExpectedNoteEvents(slots, pending) ==
    IF slots = <<>> THEN <<>>
    ELSE LET x == Head(slots)
             ticks == RoundHalfEven(288, x.duration)
         IN  IF x.notes = <<>>
             THEN ExpectedNoteEvents(Tail(slots), pending + ticks)
             ELSE GroupEvents(NOTE_ON, x.notes, pending)
                  \o GroupEvents(NOTE_OFF, x.notes, ticks)
                  \o ExpectedNoteEvents(Tail(slots), 0)

(* C8: in play_Bar the first note-on of a group carries the pending        *)
(* delta-time of the rests before it and the other note-ons carry 0; the   *)
(* first note-off carries round(288/d) ticks and the other note-offs 0.    *)
C8_GroupDeltas ==
    (last_call.op = "play_Bar" /\ ~last_call.raised) =>
        SelectSeq(ParseEvents(Appended, 1), IsNoteEvent)
            = ExpectedNoteEvents(last_call.bar.slots, 0)

----------------------------------------------------------------------------
C10_FailedLoadAdoptsNothing ==
    (last_seq.op \in {"load_tracks", "load_other"} /\ last_seq.raised) =>
        /\ score = last_seq.score
        /\ instruments = last_seq.instruments


----------------------------------------------------------------------------
(* C11: put_into_score never records at a negative timestamp: when the      *)
(* computed time round(beat / bpm * 60000) is negative the call is rejected *)
(* and the score is left as it was, so a score whose keys were all          *)
(* non-negative before the call has only non-negative keys after it.        *)
NonNegativeKeys(sc) == \A t \in DictKeys(sc) : t >= 0

C11_NegativeTimeRejected ==
    (last_seq.op = "put_into_score" /\ NonNegativeKeys(last_seq.score)) =>
        /\ NonNegativeKeys(score)
        /\ PutTime(last_seq.args.events[1], last_seq.args.tempo) < 0
               => score = last_seq.score


----------------------------------------------------------------------------
(* C12: for every positive integer bpm, set_tempo_event(bpm) succeeds and   *)
(* returns the current delta-time followed by the tempo meta event FF 51 03 *)
(* whose payload is exactly three bytes holding 60000000 // bpm big-endian  *)
(* (07 A1 20 for bpm = 120).                                                *)
TempoEventAsStated ==
    /\ tempo_event.ok
    /\ LET n == Len(tempo_event.delta_time)
           payload == SubSeq(tempo_event.bytes, n + 4, Len(tempo_event.bytes))
       IN  /\ SubSeq(tempo_event.bytes, 1, n + 3)
                  = tempo_event.delta_time \o <<255, 81, 3>>
           /\ Len(payload) = 3
           /\ BigEndian(payload) = 60000000 \div tempo_bpm
           /\ tempo_bpm = 120 => payload = <<7, 161, 32>>

C12_EveryPositiveBpm == tempo_event.applied => TempoEventAsStated

\* the same from bpm 4 on; for bpm 1, 2 and 3 the value 60000000 // bpm
\* does not fit three bytes and the call raises
C12_BpmFromFour ==
    tempo_event.applied =>
        IF tempo_bpm >= 4 THEN TempoEventAsStated ELSE ~tempo_event.ok

C12_Witness ==
    /\ tempo_event.applied
    /\ tempo_bpm = 120
    /\ tempo_event.delta_time = <<129, 72>>
    /\ tempo_event.bytes = <<129, 72, 255, 81, 3, 7, 161, 32>>


----------------------------------------------------------------------------
(* C13: the score is append-only: over every step of put_into_score,        *)
(* play_Track, play_Tracks, play_score, save_tracks and load_tracks each    *)
(* event stays in the bucket of its timestamp, at its position and after    *)
(* the same earlier events; put_into_score appends its event at the end of  *)
(* the bucket of its timestamp, creating the bucket if absent, and leaves   *)
(* every other bucket as it was.                                            *)
IsPrefix(a, b) == Len(a) <= Len(b) /\ SubSeq(b, 1, Len(a)) = a

Preserved(before, after) ==
    \A i \in 1..Len(before) :
        /\ before[i].t \in DictKeys(after)
        /\ IsPrefix(before[i].events, DictGet(after, before[i].t))

\* the step is a whole call of one of the operations ops
CallStep(ops) ==
    /\ pc = "idle" /\ pc' = "idle"
    /\ nseq' = nseq + 1
    /\ last_seq'.op \in ops

PutAppends ==
    CallStep({"put_into_score"}) =>
        LET a == last_seq'.args
            t == PutTime(a.events[1], a.tempo)
            old == IF t \in DictKeys(score) THEN DictGet(score, t) ELSE <<>>
        IN  /\ DictKeys(score') = DictKeys(score) \cup {t}
            /\ DictGet(score', t)
                   = Append(old, ControlChangeDict(a.channel, a.events[1].control,
                                                   a.events[1].value))
            /\ \A u \in DictKeys(score) \ {t} : DictGet(score', u) = DictGet(score, u)

C13_AppendOnly == [][Preserved(score, score') /\ PutAppends]_vars

\* the same, but for a load_tracks that succeeds, which replaces the whole
\* score by the document's
SuccessfulLoad == CallStep({"load_tracks", "load_other"}) /\ ~last_seq'.raised

C13_AppendOnlyButLoad ==
    [][(SuccessfulLoad \/ Preserved(score, score')) /\ PutAppends]_vars

\* a put_into_score into a bucket that held an event already
C13_Witness ==
    /\ last_seq.op = "put_into_score"
    /\ \E t \in DictKeys(last_seq.score) :
           Len(DictGet(score, t)) = Len(DictGet(last_seq.score, t)) + 1


----------------------------------------------------------------------------
(* C14: every Note and PercussionNote, however constructed and after any    *)
(* sequence of set_channel, set_velocity, set_note and empty calls, has its *)
(* velocity in 0..127 and its channel unset or in 0..15; a set_channel or   *)
(* set_velocity with a value out of range raises and leaves the note as it  *)
(* was.                                                                     *)
C14_NoteInRange ==
    note_obj.made =>
        /\ note_obj.velocity \in 0..127
        /\ note_obj.channel = <<>> \/ note_obj.channel[1] \in 0..15
        /\ (last_note.op \in {"set_channel", "set_velocity"} /\ last_note.raised)
               => note_obj = last_note.before


----------------------------------------------------------------------------
----------------------------------------------------------------------------
(* C16: for every bar, a bar after trailing rests of the previous bar       *)
(* included, play_Bar emits exactly one time-signature event and then       *)
(* exactly one key-signature event before any of the bar's note events, and *)
(* both events have delta-time 0.                                           *)
IsMeta(ev, type) == ev.status = 255 /\ ev.data[1] = type[1]

\* the bar opens with a time signature at delta-time d, a key signature at
\* delta-time 0, and has no other event of these two kinds
BarOpening(evs, d) ==
    /\ Len(evs) >= 2
    /\ IsMeta(evs[1], TIME_SIGNATURE) /\ evs[1].delta = d
    /\ IsMeta(evs[2], KEY_SIGNATURE) /\ evs[2].delta = 0
    /\ \A i \in 3..Len(evs) :
           ~IsMeta(evs[i], TIME_SIGNATURE) /\ ~IsMeta(evs[i], KEY_SIGNATURE)

C16_SignaturesAtZero ==
    last_call.op = "play_Bar" => BarOpening(ParseEvents(Appended, 1), 0)

\* the same, with the time signature carrying the pending delay of the
\* rests before the bar
C16_TimeSignatureCarriesDelay ==
    last_call.op = "play_Bar" =>
        BarOpening(ParseEvents(Appended, 1), last_call.before.delay)

\* a bar with notes played after a bar that ended in a rest
C16_Witness ==
    /\ last_call.op = "play_Bar"
    /\ ~last_call.raised
    /\ last_call.before.delay > 0
    /\ \E i \in 1..Len(last_call.bar.slots) : last_call.bar.slots[i].notes # <<>>


----------------------------------------------------------------------------
(* C17: when play_Track encodes a track that declares a numbered            *)
(* instrument, the bank-select and the program-change event for it are      *)
(* emitted exactly once, after the track name and before the first note-on  *)
(* of the track; no later note, another note of the first chord included,   *)
(* emits them again, and the pending flag is cleared once they are written. *)
EventsOfKind(evs, kind) == {i \in 1..Len(evs) : evs[i].status \div 16 = kind}
MetaEvents(evs, type) == {i \in 1..Len(evs) : IsMeta(evs[i], type)}

TrackHasNotes(track) ==
    \E b \in 1..Len(track.bars) :
        \E i \in 1..Len(track.bars[b].slots) : track.bars[b].slots[i].notes # <<>>

\* one bank-select directly followed by one program change to the track's
\* instrument, both after the name and before every note-on
InstrumentOnce(evs, track) ==
    \E i \in 1..Len(evs) :
        /\ EventsOfKind(evs, CONTROLLER) = {i}
        /\ EventsOfKind(evs, PROGRAM_CHANGE) = {i + 1}
        /\ evs[i + 1].data = <<track.instrument.number>>
        /\ \A k \in MetaEvents(evs, TRACK_NAME) : k < i
        /\ \A k \in EventsOfKind(evs, NOTE_ON) : k > i + 1

InstrumentTrackPlayed ==
    /\ last_call.op = "play_Track"
    /\ ~last_call.raised
    /\ last_call.track.instrument.has_nr

C17_InstrumentOnce ==
    InstrumentTrackPlayed =>
        /\ InstrumentOnce(ParseEvents(Appended, 1), last_call.track)
        /\ ~change_instrument[last_call.m]

\* the same for a track with a note; for a track without notes nothing is
\* emitted for the instrument and the flag stays pending
C17_InstrumentOnceBeforeFirstNote ==
    InstrumentTrackPlayed =>
        LET evs == ParseEvents(Appended, 1)
        IN  IF TrackHasNotes(last_call.track)
            THEN /\ InstrumentOnce(evs, last_call.track)
                 /\ ~change_instrument[last_call.m]
            ELSE /\ EventsOfKind(evs, CONTROLLER) = {}
                 /\ EventsOfKind(evs, PROGRAM_CHANGE) = {}
                 /\ change_instrument[last_call.m]

\* a track with an instrument and a chord, encoded while a change was
\* pending already
C17_Witness ==
    /\ InstrumentTrackPlayed
    /\ last_call.before.change_instrument
    /\ \E b \in 1..Len(last_call.track.bars) :
           \E i \in 1..Len(last_call.track.bars[b].slots) :
               Len(last_call.track.bars[b].slots[i].notes) >= 2
    /\ Cardinality(EventsOfKind(ParseEvents(Appended, 1), NOTE_ON)) >= 2


----------------------------------------------------------------------------
(* C18: set_instrument(channel, instr, bank) appends a bank-select event    *)
(* and a program-change event that both address the channel: the first is a *)
(* controller event with status (CONTROLLER << 4) | channel, controller     *)
(* number BANK_SELECT and value bank, the second has status                 *)
(* (PROGRAM_CHANGE << 4) | channel and the one data byte instr.             *)
C18_InstrumentEventsAddressed ==
    (last_call.op = "set_instrument" /\ ~last_call.raised) =>
        LET channel == last_call.args[1]
            instr == last_call.args[2]
            bank == last_call.args[3]
            evs == ParseEvents(Appended, 1)
        IN  /\ Len(evs) = 2
            /\ evs[1].status = 16 * CONTROLLER + channel
            /\ evs[1].data = <<BANK_SELECT, bank>>
            /\ evs[2].status = 16 * PROGRAM_CHANGE + channel
            /\ evs[2].data = <<instr>>


----------------------------------------------------------------------------
(* C19: delta-times conserve musical time: in the stream that play_Track    *)
(* produces, rests emit no event and the absolute tick of every note-on,    *)
(* the sum of the delta-times of the events from the start of the stream up *)
(* to it, is the sum of round(288 / duration) over the slots before the     *)
(* slot of the note; also after rests, with an instrument change pending    *)
(* and for a group with a bpm attribute.                                    *)
RECURSIVE FlatSlots(_)
FlatSlots(bars) ==
    IF bars = <<>> THEN <<>> ELSE Head(bars).slots \o FlatSlots(Tail(bars))

\* the tick of each note-on that the slots ask for, in order
RECURSIVE ExpectedNoteOnTicks(_, _)
ExpectedNoteOnTicks(slots, pos) ==
    IF slots = <<>> THEN <<>>
    ELSE [i \in 1..Len(Head(slots).notes) |-> pos]
         \o ExpectedNoteOnTicks(Tail(slots), pos + Tick(Head(slots).duration))

\* the absolute tick of each note-on of the stream
NoteOnTicks(evs) ==
    LET timed == [i \in 1..Len(evs) |->
                     [status |-> evs[i].status,
                      abs |-> SumSeq([j \in 1..i |-> evs[j].delta])]]
        ons == SelectSeq(timed, LAMBDA r : r.status \div 16 = NOTE_ON)
    IN  [i \in 1..Len(ons) |-> ons[i].abs]

C19_TimeConserved ==
    (last_call.op = "play_Track" /\ ~last_call.raised) =>
        NoteOnTicks(ParseEvents(Appended, 1))
            = ExpectedNoteOnTicks(FlatSlots(last_call.track.bars), 0)


----------------------------------------------------------------------------
(* C20: play_Tracks called with bpm=None renders each track at its own      *)
(* tempo: for every i the control events of tracks[i] are recorded on       *)
(* channels[i] at round(beat / tracks[i].bpm * 60000) ms, whatever the bpm  *)
(* of the tracks before it; and instruments gains one pair                  *)
(* (channels[i], tracks[i].instrument), in track order, for each track      *)
(* whose instrument is not None.                                            *)
RECURSIVE EachAtOwnTempo(_, _, _, _)
EachAtOwnTempo(sc, tracks, channels, i) ==
    IF i > Len(tracks) THEN sc
    ELSE EachAtOwnTempo(PutEvents(sc, tracks[i].events, channels[i], tracks[i].bpm),
                        tracks, channels, i + 1)

PairsInOrder(tracks, channels) ==
    LET all == [i \in 1..Len(tracks) |->
                   [channel |-> channels[i], instrument |-> tracks[i].instrument]]
    IN  SelectSeq(all, LAMBDA p : ~p.instrument.none)

C20_EachTrackOwnTempo ==
    (last_seq.op = "play_Tracks" /\ last_seq.args.tempo = 0) =>
        LET a == last_seq.args
        IN  /\ score = EachAtOwnTempo(last_seq.score, a.tracks, a.channels, 1)
            /\ instruments = last_seq.instruments \o PairsInOrder(a.tracks, a.channels)

============================================================================
